---- MODULE Spec2Model ----
(***************************************************************************)
(* Generation orchestration engine of the PixFrog image tool:              *)
(*   - the retry policy            (services/geminiService.ts, 44-72)      *)
(*   - prompt refinement           (services/geminiService.ts, 102-127)    *)
(*   - image generation            (services/geminiService.ts, 133-217)    *)
(*   - the style memory            (services/geminiService.ts, 233-313)    *)
(*   - the session orchestrator    (App.tsx)                               *)
(*                                                                         *)
(* An asynchronous service call is a task: a stack of frames, one per      *)
(* pending retryOperation call and one per pending operation() body.  A    *)
(* task moves when a remote call settles or when a backoff sleep ends; the *)
(* synchronous code that runs from there up to the next await is part of   *)
(* the same step.                                                          *)
(***************************************************************************)
EXTENDS Integers, Sequences, FiniteSets, TLC

VARIABLES
    task,      \* task id -> the service call it runs (frames, outcome)
    hist,      \* task id -> what has been observed of the call (history)
    apiKey,    \* whether getApiKey() yields a non-empty credential
    blob,      \* the persisted value under STORAGE_KEY
    memo,      \* the last call of the style memory: arguments, store before, result
    sent,      \* the last request generateWithImages built: its arguments, the request
    currentMode,     \* App: the active mode
    histories,       \* App: mode -> the messages of its conversation
    generatingMode,  \* App: the mode reported generating, or Null
    config,          \* App: the GenerationConfig of the session
    req              \* task id -> the handleSendMessage call that awaits it

svcVars == <<task, hist, apiKey, blob, memo, sent>>
appVars == <<currentMode, histories, generatingMode, config, req>>
vars == <<task, hist, apiKey, blob, memo, sent, currentMode, histories, generatingMode, config, req>>

(***************************************************************************)
(* Bounds of the model.                                                    *)
(***************************************************************************)
MaxTasks == 2
MaxRetries == 3
MaxTime == 2
MaxImages == 2

TaskIds == 1..MaxTasks

(***************************************************************************)
(* Program constants.                                                      *)
(***************************************************************************)
QuotaCooldownMs == 18000
UnavailableDelayMs == 5000
RefineRetries == 1
ImageRetries == 2
RecallLimit == 5
MemoryCap == 100

AppMode == {"GENERAL", "THUMBNAIL", "LOGO", "BG_REMOVER", "BANNER", "POSTER", "AVATAR"}

(***************************************************************************)
(* Strings are sequences of characters, so that trim() and the emptiness   *)
(* tests are computed.                                                     *)
(***************************************************************************)
RECURSIVE TrimStart(_)
TrimStart(s) ==
    IF s # <<>> /\ Head(s) = " " THEN TrimStart(Tail(s)) ELSE s

RECURSIVE TrimEnd(_)
TrimEnd(s) ==
    IF s # <<>> /\ s[Len(s)] = " " THEN TrimEnd(SubSeq(s, 1, Len(s) - 1)) ELSE s

Trim(s) == TrimEnd(TrimStart(s))

UserInputs == {<<>>, <<" ">>, <<"a">>}

(***************************************************************************)
(* Errors.  message is the set of the marker substrings the message        *)
(* contains; message.includes(x) is x \in message.  status/code 0 stand    *)
(* for an absent field.                                                    *)
(***************************************************************************)
NoErr == [name |-> "none", status |-> 0, code |-> 0, message |-> {}]
ErrQuota == [name |-> "ApiError", status |-> 429, code |-> 0,
             message |-> {"429", "quota", "RESOURCE_EXHAUSTED"}]
ErrQuotaCode == [name |-> "ApiError", status |-> 0, code |-> 429, message |-> {}]
ErrQuotaMsg == [name |-> "Error", status |-> 0, code |-> 0, message |-> {"quota"}]
ErrUnavailable == [name |-> "ApiError", status |-> 503, code |-> 0, message |-> {}]
ErrUnavailableCode == [name |-> "ApiError", status |-> 0, code |-> 503, message |-> {}]
ErrDenied == [name |-> "ApiError", status |-> 403, code |-> 0, message |-> {"403"}]
ErrType == [name |-> "TypeError", status |-> 0, code |-> 0, message |-> {}]
ErrMissingKey == [name |-> "Error", status |-> 0, code |-> 0,
                  message |-> {"API Key is missing"}]

RemoteErrors == {ErrQuota, ErrQuotaCode, ErrQuotaMsg, ErrUnavailable,
                 ErrUnavailableCode, ErrDenied}

IsQuotaError(e) ==
    \/ e.status = 429
    \/ e.code = 429
    \/ "429" \in e.message
    \/ "quota" \in e.message

IsUnavailable(e) == e.status = 503 \/ e.code = 503

(***************************************************************************)
(* Style memory: the persisted blob and recall.  A blob is absent, not     *)
(* parseable as JSON, parseable but no array, or an array of patterns.     *)
(* The text recall returns is the ordered list of the style references it  *)
(* renders; <<>> is the empty string.                                      *)
(***************************************************************************)
BlobAbsent == [kind |-> "absent", items |-> <<>>]
BlobCorrupt == [kind |-> "corrupt", items |-> <<>>]
BlobNonSeq == [kind |-> "nonseq", items |-> <<>>]
BlobOf(items) == [kind |-> "seq", items |-> items]

Pattern(m, u, r, ts) == [mode |-> m, userInput |-> u, refinedPrompt |-> r, timestamp |-> ts]

Filter(s, m) == SelectSeq(s, LAMBDA p : p.mode = m)

Reverse(s) == [i \in 1..Len(s) |-> s[Len(s) + 1 - i]]

Slice(s, n) == SubSeq(s, 1, IF Len(s) < n THEN Len(s) ELSE n)

\* brain.some(b => b.userInput === userInput && b.refinedPrompt === refinedPrompt)
IsDuplicate(brain, userInput, refinedPrompt) ==
    \E i \in 1..Len(brain) :
        brain[i].userInput = userInput /\ brain[i].refinedPrompt = refinedPrompt

\* Storage faults: getItem raises ("read"), setItem raises ("write").
Faults == {"none", "read", "write"}

\* Variant: learn without its try/catch.
learnNoCatch(store, mode, userInput, refinedPrompt, now, fault) ==
    IF fault = "read" \/ store.kind \in {"corrupt", "nonseq"}
    THEN [store |-> store, threw |-> TRUE]
    ELSE LET brain == store.items
             pushed == Append(brain, Pattern(mode, userInput, refinedPrompt, now))
             kept == IF Len(pushed) > MemoryCap THEN Tail(pushed) ELSE pushed
         IN  IF IsDuplicate(brain, userInput, refinedPrompt)
             THEN [store |-> store, threw |-> FALSE]
             ELSE IF fault = "write" THEN [store |-> store, threw |-> TRUE]
             ELSE [store |-> BlobOf(kept), threw |-> FALSE]

\* Variant: the duplicate test also compares the mode.
learnPerMode(store, mode, userInput, refinedPrompt, now, fault) ==
    IF fault = "read" \/ store.kind \in {"corrupt", "nonseq"}
    THEN [store |-> store, threw |-> FALSE]
    ELSE LET brain == store.items
             pushed == Append(brain, Pattern(mode, userInput, refinedPrompt, now))
             kept == IF Len(pushed) > MemoryCap THEN Tail(pushed) ELSE pushed
         IN  IF \E i \in 1..Len(brain) : brain[i] = Pattern(mode, userInput, refinedPrompt,
                                                            brain[i].timestamp)
             THEN [store |-> store, threw |-> FALSE]
             ELSE IF fault = "write" THEN [store |-> store, threw |-> FALSE]
             ELSE [store |-> BlobOf(kept), threw |-> FALSE]

\* Variant: the newest record is dropped when the store is full.
learnDropNewest(store, mode, userInput, refinedPrompt, now, fault) ==
    IF fault = "read" \/ store.kind \in {"corrupt", "nonseq"}
    THEN [store |-> store, threw |-> FALSE]
    ELSE LET brain == store.items
             pushed == Append(brain, Pattern(mode, userInput, refinedPrompt, now))
             kept == IF Len(pushed) > MemoryCap THEN SubSeq(pushed, 1, MemoryCap) ELSE pushed
         IN  IF IsDuplicate(brain, userInput, refinedPrompt)
             THEN [store |-> store, threw |-> FALSE]
             ELSE IF fault = "write" THEN [store |-> store, threw |-> FALSE]
             ELSE [store |-> BlobOf(kept), threw |-> FALSE]

\* learn (238-266): the persisted value after the call and whether the call
\* raised.  getItem raising, JSON.parse raising on an unparseable value,
\* brain.some raising on a value that is no array and setItem raising all
\* end in the catch block (263-265), which logs and returns.  A missing
\* value is read as [] (241).
learn(store, mode, userInput, refinedPrompt, now, fault) ==
    IF fault = "read" \/ store.kind \in {"corrupt", "nonseq"}
    THEN [store |-> store, threw |-> FALSE]
    ELSE LET brain == store.items
             pushed == Append(brain, Pattern(mode, userInput, refinedPrompt, now))
             kept == IF Len(pushed) > MemoryCap THEN Tail(pushed) ELSE pushed
         IN  IF IsDuplicate(brain, userInput, refinedPrompt)
             THEN [store |-> store, threw |-> FALSE]
             ELSE IF fault = "write" THEN [store |-> store, threw |-> FALSE]
             ELSE [store |-> BlobOf(kept), threw |-> FALSE]

\* Variant: recall renders the oldest records first.
RecallOldestFirst(store, mode) ==
    IF store.kind = "absent" THEN <<>>
    ELSE IF store.kind \in {"corrupt", "nonseq"} THEN <<>>
    ELSE LET relevantMemories == Slice(Filter(store.items, mode), RecallLimit)
         IN  [i \in 1..Len(relevantMemories) |->
                 [userInput |-> relevantMemories[i].userInput,
                  refinedPrompt |-> relevantMemories[i].refinedPrompt]]

\* recall (272-312) on the persisted value store
Recall(store, mode) ==
    IF store.kind = "absent" THEN <<>>
    ELSE IF store.kind \in {"corrupt", "nonseq"} THEN <<>>
    ELSE LET relevantMemories == Slice(Reverse(Filter(store.items, mode)), RecallLimit)
         IN  [i \in 1..Len(relevantMemories) |->
                 [userInput |-> relevantMemories[i].userInput,
                  refinedPrompt |-> relevantMemories[i].refinedPrompt]]

NoMemo ==
    [op |-> "none", mode |-> "GENERAL", userInput |-> <<>>, refinedPrompt |-> <<>>,
     now |-> 0, fault |-> "none", before |-> BlobAbsent, threw |-> FALSE, text |-> <<>>]

InitBlobs ==
    {BlobAbsent, BlobCorrupt, BlobNonSeq, BlobOf(<<>>),
     BlobOf(<<Pattern("LOGO", <<"a">>, <<"r">>, 1)>>)}

(***************************************************************************)
(* Remote responses.  A generateContent response of the image models: the  *)
(* candidates array may be absent, and so may a candidate's content and a  *)
(* content's parts; a part carries inlineData or not.  A response of the   *)
(* text model: its text may be undefined.                                  *)
(***************************************************************************)
Absent == [defined |-> FALSE, items |-> <<>>]
Parts(ps) == [defined |-> TRUE, items |-> ps]
Candidate(hasContent, parts) == [content |-> [defined |-> hasContent, parts |-> parts]]
Response(cs) == [candidates |-> [defined |-> TRUE, items |-> cs]]

RespImage == Response(<<Candidate(TRUE, Parts(<<[inlineData |-> FALSE], [inlineData |-> TRUE]>>))>>)
RespTextOnly == Response(<<Candidate(TRUE, Parts(<<[inlineData |-> FALSE]>>))>>)
RespNoParts == Response(<<Candidate(TRUE, Absent)>>)
RespNoCandidates == [candidates |-> Absent]
RespEmptyCandidates == Response(<<>>)
RespNoContent == Response(<<Candidate(FALSE, Absent)>>)

\* responses the parsing code reads without raising
NoImageResponses == {RespTextOnly, RespNoParts, RespNoCandidates}
\* responses whose first candidate, or its content, is missing
MalformedResponses == {RespEmptyCandidates, RespNoContent}

TextReplies ==
    {[defined |-> FALSE, s |-> <<>>], [defined |-> TRUE, s |-> <<>>],
     [defined |-> TRUE, s |-> <<" ">>], [defined |-> TRUE, s |-> <<" ", "r", " ">>]}

(***************************************************************************)
(* Outcomes of a call: a value or a thrown error.                          *)
(***************************************************************************)
ValImage == [t |-> "image", s |-> <<>>]
ValNull == [t |-> "null", s |-> <<>>]
ValOk == [t |-> "ok", s |-> <<>>]
ValText(s) == [t |-> "text", s |-> s]
NoVal == [t |-> "none", s |-> <<>>]

Returned(v) == [kind |-> "value", val |-> v, err |-> NoErr]
Thrown(e) == [kind |-> "error", val |-> NoVal, err |-> e]

\* Variant: a response without an image payload raises.
ParseImageStrict(resp) ==
    IF resp.candidates.defined /\ resp.candidates.items # <<>>
       /\ resp.candidates.items[1].content.defined
       /\ resp.candidates.items[1].content.parts.defined
       /\ \E i \in 1..Len(resp.candidates.items[1].content.parts.items) :
              resp.candidates.items[1].content.parts.items[i].inlineData
    THEN Returned(ValImage)
    ELSE Thrown(ErrType)

\* geminiService.ts 155-162 and 204-211
ParseImage(resp) ==
    IF resp.candidates.defined
    THEN IF resp.candidates.items = <<>> THEN Thrown(ErrType)
         ELSE LET content == resp.candidates.items[1].content IN
              IF ~content.defined THEN Thrown(ErrType)
              ELSE IF content.parts.defined
                      /\ \E i \in 1..Len(content.parts.items) : content.parts.items[i].inlineData
                   THEN Returned(ValImage)
                   ELSE Returned(ValNull)
    ELSE Returned(ValNull)

\* geminiService.ts 121: response.text?.trim() || userInput
ParseText(reply, userInput) ==
    IF reply.defined /\ Trim(reply.s) # <<>> THEN Trim(reply.s) ELSE userInput

(***************************************************************************)
(* Tasks.  A frame is a pending retryOperation call (kind "retry": the     *)
(* operation it wraps, the retries left, and whether it awaits the         *)
(* operation or sleeps) or a pending operation body (kind "op": awaiting   *)
(* the remote call, or, for the high tier, awaiting attemptGen(false)).    *)
(* The last frame of the stack is the innermost call.                      *)
(*                                                                         *)
(* retryOperation calls itself in tail position (return retryOperation(    *)
(* operation, retries - 1) inside the catch block, whose own failure is    *)
(* not caught again), so the recursive call is the same frame with one     *)
(* retry less.                                                             *)
(***************************************************************************)
RetryFrame(op, n) == [kind |-> "retry", op |-> op, retries |-> n, pc |-> "await", wait |-> 0]
OpFrame(op) == [kind |-> "op", op |-> op, retries |-> 0, pc |-> "remote", wait |-> 0]

NoArgs == [n |-> 0, hq |-> FALSE, input |-> <<>>, mode |-> "GENERAL", hasImages |-> FALSE]

IdleTask ==
    [fn |-> "idle", args |-> NoArgs, stack |-> <<>>, status |-> "idle",
     val |-> NoVal, err |-> NoErr]

\* What has been observed of a task: invocations of the opaque operation
\* (opq), of the high tier (hi), the standard tier (std) and the text model
\* (txt); remote calls in flight; completed sleeps and the length of the
\* last one; the error the last remote call ended with (NoErr when it
\* answered); fallbacks taken by
\* the high tier, whether one was taken while the high tier could still be
\* retried (early), and whether the high tier was invoked after the
\* standard tier (hiAfterStd); whether a response without an image payload
\* arrived (noImage); whether refinement absorbed a failure or an empty
\* reply (absorbed); the style context refinement sent (learned).
NoHist ==
    [opq |-> 0, hi |-> 0, std |-> 0, txt |-> 0, inflight |-> 0,
     waits |-> 0, lastWait |-> 0, lastErr |-> NoErr,
     fallbacks |-> 0, early |-> FALSE, hiAfterStd |-> FALSE,
     noImage |-> FALSE, absorbed |-> FALSE, learned |-> <<>>]

\* A context is a task together with its history.
Ctx(t, h) == [t |-> t, h |-> h]
Top(c) == c.t.stack[Len(c.t.stack)]
Push(c, f) == [c EXCEPT !.t.stack = Append(@, f)]
Pop(c) == [c EXCEPT !.t.stack = SubSeq(@, 1, Len(@) - 1)]
SetTop(c, f) == [c EXCEPT !.t.stack[Len(c.t.stack)] = f]

Retryable(e) == IsQuotaError(e) \/ IsUnavailable(e)

\* The task's promise settles.
Settle(c, out) ==
    [c EXCEPT !.t.status = IF out.kind = "value" THEN "returned" ELSE "thrown",
              !.t.val = out.val,
              !.t.err = out.err]

\* A remote call (or the opaque operation) starts.
Remote(c, op) ==
    LET h == c.h
        h2 == [h EXCEPT !.inflight = @ + 1,
                  !.opq = IF op = "opaque" THEN @ + 1 ELSE @,
                  !.hi = IF op = "genPro" THEN @ + 1 ELSE @,
                  !.std = IF op \in {"genStd", "genImages"} THEN @ + 1 ELSE @,
                  !.txt = IF op = "refine" THEN @ + 1 ELSE @,
                  !.hiAfterStd = @ \/ (op = "genPro" /\ h.std > 0)]
    IN  Push([c EXCEPT !.h = h2], OpFrame(op))

RECURSIVE Resume(_, _)
RECURSIVE RetryCatch(_, _)

\* Variants of the code used to test the properties below: the budget
\* test off by one, every failure retried, and the retry started without
\* the sleep.
RetryCatchOffByOne(c, error) ==
    LET f == Top(c) IN
    IF IsQuotaError(error) /\ f.retries >= 0
    THEN SetTop(c, [f EXCEPT !.pc = "sleep", !.wait = QuotaCooldownMs])
    ELSE IF IsUnavailable(error) /\ f.retries >= 0
    THEN SetTop(c, [f EXCEPT !.pc = "sleep", !.wait = UnavailableDelayMs])
    ELSE Resume(Pop(c), Thrown(error))

RetryCatchEveryError(c, error) ==
    LET f == Top(c) IN
    IF IsQuotaError(error) /\ f.retries > 0
    THEN SetTop(c, [f EXCEPT !.pc = "sleep", !.wait = QuotaCooldownMs])
    ELSE IF f.retries > 0
    THEN SetTop(c, [f EXCEPT !.pc = "sleep", !.wait = UnavailableDelayMs])
    ELSE Resume(Pop(c), Thrown(error))

RetryCatchNoSleep(c, error) ==
    LET f == Top(c) IN
    IF Retryable(error) /\ f.retries > 0
    THEN Remote(SetTop(c, [f EXCEPT !.retries = @ - 1]), f.op)
    ELSE Resume(Pop(c), Thrown(error))

\* retryOperation's catch block (47-71); the top frame is the retry frame
\* whose operation() rejected with error.
RetryCatch(c, error) ==
    LET f == Top(c) IN
    IF IsQuotaError(error) /\ f.retries > 0
    THEN SetTop(c, [f EXCEPT !.pc = "sleep", !.wait = QuotaCooldownMs])
    ELSE IF IsUnavailable(error) /\ f.retries > 0
    THEN SetTop(c, [f EXCEPT !.pc = "sleep", !.wait = UnavailableDelayMs])
    ELSE Resume(Pop(c), Thrown(error))

\* The awaited call of the top frame settles with out; the frames run on
\* until one of them awaits again or the task settles.
Resume(c, out) ==
    IF c.t.stack = <<>> THEN Settle(c, out)
    ELSE IF Top(c).kind = "retry"
    THEN \* return await operation() (46)
         IF out.kind = "value" THEN Resume(Pop(c), out) ELSE RetryCatch(c, out.err)
    ELSE \* return attemptGen(false) inside the high tier's catch (166)
         Resume(Pop(c), out)

\* Variant: the failure is rethrown instead of absorbed.
RefineCatchRethrow(c, error) == Resume(c, Thrown(error))

\* refinePrompt's catch (122-125): the failure is absorbed, the raw input returned.
RefineCatch(c, error) ==
    Resume([c EXCEPT !.h.absorbed = TRUE], Returned(ValText(c.t.args.input)))

\* operation() is called by the retry frame on top: the body runs up to its
\* remote call.  w is the world the body reads: the credential and the
\* persisted value.
Operation(c, op, w) ==
    CASE op = "refine" ->
           \* 104-119: getAiClient() and recall() inside the try
           IF ~w.apiKey THEN RefineCatch(c, ErrMissingKey)
           ELSE Remote([c EXCEPT !.h.learned = Recall(w.blob, c.t.args.mode)], op)
      [] op = "genImages" ->
           \* 182-202: getAiClient() inside the try, rethrown (212-215)
           IF ~w.apiKey THEN RetryCatch(c, ErrMissingKey)
           ELSE Remote(c, op)
      [] OTHER -> Remote(c, op)

retryOperation(c, op, retries, w) == Operation(Push(c, RetryFrame(op, retries)), op, w)

\* attemptGen (140-171)
attemptGen(c, usePro, w) ==
    retryOperation(c, IF usePro THEN "genPro" ELSE "genStd", ImageRetries, w)

\* The catch of the image operation (163-169).
GenCatch(c, error, w) ==
    IF Top(c).op = "genPro"
    THEN LET early == c.t.stack[Len(c.t.stack) - 1].retries > 0 /\ Retryable(error)
         IN  attemptGen(SetTop([c EXCEPT !.h.fallbacks = @ + 1,
                                         !.h.early = @ \/ early],
                               [Top(c) EXCEPT !.pc = "fallback"]),
                        FALSE, w)
    ELSE Resume(Pop(c), Thrown(error))

\* The remote call of the top frame settles with out (a response or an error).
OnRemote(c, out, w) ==
    LET op == Top(c).op
        d == [c EXCEPT !.h.inflight = @ - 1,
                       !.h.lastErr = IF out.kind = "error" THEN out.err ELSE NoErr]
    IN  CASE op = "opaque" -> Resume(Pop(d), out)
          [] op = "refine" ->
               IF out.kind = "error" THEN RefineCatch(Pop(d), out.err)
               ELSE Resume(Pop([d EXCEPT !.h.absorbed =
                                   @ \/ ~(out.val.defined /\ Trim(out.val.s) # <<>>)]),
                           Returned(ValText(ParseText(out.val, d.t.args.input))))
          [] op = "genImages" ->
               \* 212-215: logged and rethrown
               IF out.kind = "error" THEN Resume(Pop(d), out)
               ELSE LET r == ParseImage(out.val)
                        e == [d EXCEPT !.h.noImage = @ \/ out.val \in NoImageResponses]
                    IN  Resume(Pop(e), r)
          [] OTHER ->
               IF out.kind = "error" THEN GenCatch(d, out.err, w)
               ELSE LET r == ParseImage(out.val)
                        e == [d EXCEPT !.h.noImage = @ \/ out.val \in NoImageResponses]
                    IN  IF r.kind = "error" THEN GenCatch(e, r.err, w) ELSE Resume(Pop(e), r)

\* sleep(ms) of the top retry frame ends: return retryOperation(operation, retries - 1).
Wake(c, w) ==
    LET f == Top(c)
        d == [c EXCEPT !.h.waits = @ + 1, !.h.lastWait = f.wait]
    IN  Operation(SetTop(d, [f EXCEPT !.retries = @ - 1, !.pc = "await", !.wait = 0]), f.op, w)

(***************************************************************************)
(* Entry points of the service.                                            *)
(***************************************************************************)
NewTask(fn, args) ==
    Ctx([IdleTask EXCEPT !.fn = fn, !.args = args, !.status = "running"], NoHist)

\* refinePrompt (102-127)
refinePrompt(userInput, mode, hasImages, w) ==
    retryOperation(NewTask("refinePrompt",
                           [NoArgs EXCEPT !.input = userInput, !.mode = mode,
                                          !.hasImages = hasImages]),
                   "refine", RefineRetries, w)

\* generateImage (133-174): getAiClient() is called outside any try
generateImage(highQuality, w) ==
    LET c == NewTask("generateImage", [NoArgs EXCEPT !.hq = highQuality])
    IN  IF ~w.apiKey THEN Settle(c, Thrown(ErrMissingKey)) ELSE attemptGen(c, highQuality, w)

\* generateWithImages (176-217)
generateWithImages(w) ==
    retryOperation(NewTask("generateWithImages", [NoArgs EXCEPT !.hasImages = TRUE]),
                   "genImages", ImageRetries, w)

(***************************************************************************)
(* The request generateWithImages builds (184-202).  A reference image is  *)
(* a string, here a sequence of tokens: the literals "data:", "image/" and *)
(* ";base64," are one token each, every other character is a token.        *)
(***************************************************************************)
\* the characters of the model that \w matches
WordChars == {"p", "n", "g", "j", "e", "w", "b", "i", "f", "s", "v", "x", "m", "l"}

\* the length of the longest run of \w characters of s from position i on
RECURSIVE WordRun(_, _)
WordRun(s, i) ==
    IF i <= Len(s) /\ s[i] \in WordChars THEN 1 + WordRun(s, i + 1) ELSE 0

\* img.match(/^data:(image\/\w+);base64,/) (187): the group, <<>> for null
MimeMatch(img) ==
    LET n == WordRun(img, 3) IN
    IF /\ Len(img) >= 2 /\ img[1] = "data:" /\ img[2] = "image/"
       /\ n >= 1 /\ Len(img) >= 3 + n /\ img[3 + n] = ";base64,"
    THEN SubSeq(img, 2, 2 + n)
    ELSE <<>>

\* 188
MimeType(img) ==
    IF MimeMatch(img) # <<>> THEN MimeMatch(img) ELSE <<"image/", "p", "n", "g">>

\* the alternatives of (png|jpeg|jpg|webp) (189)
StrippedSubtypes ==
    {<<"p", "n", "g">>, <<"j", "p", "e", "g">>, <<"j", "p", "g">>, <<"w", "e", "b", "p">>}

\* the prefix /^data:image\/(png|jpeg|jpg|webp);base64,/ matches, with t
HasPrefix(img, t) ==
    /\ Len(img) >= 3 + Len(t)
    /\ img[1] = "data:"
    /\ img[2] = "image/"
    /\ SubSeq(img, 3, 2 + Len(t)) = t
    /\ img[3 + Len(t)] = ";base64,"

\* img.replace(/^data:image\/(png|jpeg|jpg|webp);base64,/, '') (189)
CleanData(img) ==
    IF \E t \in StrippedSubtypes : HasPrefix(img, t)
    THEN LET t == CHOOSE t \in StrippedSubtypes : HasPrefix(img, t)
         IN  SubSeq(img, 4 + Len(t), Len(img))
    ELSE img

\* 184-196: one inlineData part per image, then the text part
RequestParts(base64Images, prompt) ==
    [i \in 1..Len(base64Images) |->
        [inlineData |-> TRUE, data |-> CleanData(base64Images[i]),
         mimeType |-> MimeType(base64Images[i]), text |-> <<>>]]
    \o <<[inlineData |-> FALSE, data |-> <<>>, mimeType |-> <<>>, text |-> prompt]>>

\* 198-202
ImageRequest(base64Images, prompt) ==
    [model |-> "gemini-2.5-flash-image", parts |-> RequestParts(base64Images, prompt)]

NoSent ==
    [op |-> "none", images |-> <<>>, prompt |-> <<>>,
     request |-> [model |-> "", parts |-> <<>>]]

(***************************************************************************)
(* The outcomes of a call.  Between its start and its settling a service   *)
(* call reads the credential and the persisted value and writes nothing,   *)
(* so for its caller it is the choice of one of the outcomes its task can  *)
(* settle with, whatever the remote service answers.                       *)
(***************************************************************************)
Outcome(t) == IF t.status = "returned" THEN Returned(t.val) ELSE Thrown(t.err)

\* What may come back to the remote call of an operation.
Answers(op) ==
    {Thrown(e) : e \in RemoteErrors} \cup
    (CASE op = "opaque" -> {Thrown(ErrType), Returned(ValOk)}
       [] op = "refine" -> {Returned(reply) : reply \in TextReplies}
       [] OTHER -> {Returned(resp) :
                       resp \in {RespImage} \cup NoImageResponses \cup MalformedResponses})

\* The contexts a running context can move to in one step.
Steps(c, w) ==
    IF Top(c).pc = "sleep" THEN {Wake(c, w)}
    ELSE {OnRemote(c, out, w) : out \in Answers(Top(c).op)}

Forget(c) == [c EXCEPT !.h = NoHist]

RECURSIVE Closure(_, _)
Closure(S, w) ==
    LET T == S \cup UNION {{Forget(d) : d \in Steps(c, w)} :
                              c \in {x \in S : x.t.status = "running"}}
    IN  IF T = S THEN S ELSE Closure(T, w)

Outcomes(c, w) ==
    {Outcome(d.t) : d \in {x \in Closure({Forget(c)}, w) : x.t.status # "running"}}

\* A call can be pending only with a credential.
Keyed == [apiKey |-> TRUE, blob |-> BlobAbsent]
OutcomesHigh == Outcomes(generateImage(TRUE, Keyed), Keyed)
OutcomesStandard == Outcomes(generateImage(FALSE, Keyed), Keyed)
OutcomesWithImages == Outcomes(generateWithImages(Keyed), Keyed)
\* mode and hasImages shape the instruction sent to the text model, not
\* what refinePrompt does with the reply
RefinementTable ==
    {<<u, Outcomes(refinePrompt(u, "GENERAL", FALSE, Keyed), Keyed)>> : u \in UserInputs}
RefinementOutcomes(userInput) ==
    (CHOOSE p \in RefinementTable : p[1] = userInput)[2]

(***************************************************************************)
(* The session orchestrator (App.tsx).  A message is a user message (its   *)
(* text, whether images are attached) or an assistant message (a result    *)
(* with metadata, or an error text).  Timestamps and the ad overlay flag   *)
(* are written but never read by the engine and are left out.              *)
(***************************************************************************)
Null == "null"

AspectRatios == {"1:1", "16:9", "9:16", "3:4", "4:3"}

\* App.tsx 74-110
DefaultConfig(mode) ==
    CASE mode \in {"THUMBNAIL", "BANNER"} -> [aspectRatio |-> "16:9", highQuality |-> TRUE]
      [] mode = "POSTER" -> [aspectRatio |-> "3:4", highQuality |-> TRUE]
      [] mode \in {"LOGO", "AVATAR"} -> [aspectRatio |-> "1:1", highQuality |-> TRUE]
      [] mode = "BG_REMOVER" -> [aspectRatio |-> "1:1", highQuality |-> FALSE]
      [] OTHER -> [aspectRatio |-> "1:1", highQuality |-> FALSE]

NoMeta == [present |-> FALSE, originalPrompt |-> <<>>, finalPrompt |-> <<>>, liked |-> FALSE]
NoNote == [text |-> "", marks |-> {}]

UserMsg(text, hasImages) ==
    [role |-> "user", content |-> text, images |-> hasImages,
     errMessage |-> NoNote, metadata |-> NoMeta]

\* App.tsx 204-214
ResultMsg(mode, text, finalPrompt) ==
    [role |-> "assistant", content |-> <<"Here is your ", mode, " design!">>,
     images |-> TRUE, errMessage |-> NoNote,
     metadata |-> [present |-> TRUE, originalPrompt |-> text,
                   finalPrompt |-> finalPrompt, liked |-> FALSE]]

ErrNoImage == [name |-> "Error", status |-> 0, code |-> 0,
               message |-> {"No image data returned from API."}]
\* a thrown value that carries no message
ErrBare == [name |-> "Object", status |-> 0, code |-> 0, message |-> {}]

\* App.tsx 222-232
ErrorText(error) ==
    IF error.name = "Object" THEN [text |-> "Unknown error", marks |-> {}]
    ELSE IF error.message \cap {"429", "quota", "RESOURCE_EXHAUSTED"} # {}
    THEN [text |-> "Server traffic is high (Quota Limit). Please wait a moment and try again.",
          marks |-> {}]
    ELSE IF "403" \in error.message
    THEN [text |-> "API Key Invalid or Access Denied. Please check your environment configuration.",
          marks |-> {}]
    ELSE IF "API Key is missing" \in error.message
    THEN [text |-> "API Key not found. Please ensure you have connected your account.",
          marks |-> {}]
    ELSE IF "SAFETY" \in error.message
    THEN [text |-> "Generation blocked by safety filters. Try a different prompt.",
          marks |-> {}]
    ELSE [text |-> "error.message", marks |-> error.message]

\* App.tsx 234-241
ErrorMsg(error) ==
    [role |-> "assistant", content |-> <<"Warning: ">>, images |-> FALSE,
     errMessage |-> ErrorText(error), metadata |-> NoMeta]

\* App.tsx 188-192
FallbackPrompt(mode) ==
    IF mode = "BG_REMOVER" THEN <<"Isolate the subject on white background.">>
    ELSE IF mode = "THUMBNAIL" THEN <<"YouTube thumbnail.">>
    ELSE <<"High quality image.">>

NoReq ==
    [stage |-> "none", mode |-> "GENERAL", text |-> <<>>, hasImages |-> FALSE,
     config |-> DefaultConfig("GENERAL"), finalPrompt |-> <<>>]

\* A request that has run to its end.
Done == [NoReq EXCEPT !.stage = "done"]

\* The part of the state a handleSendMessage call works on.
AppState == [histories |-> histories, generatingMode |-> generatingMode, req |-> req]

World == [apiKey |-> apiKey, blob |-> blob]

\* Variant: the new message is put first.
PrependMsg(a, mode, msg) == [a EXCEPT !.histories[mode] = <<msg>> \o @]

\* App.tsx 165-168, 202-204, 234-236: [...(prev[mode] || []), msg]
AppendMsg(a, mode, msg) == [a EXCEPT !.histories[mode] = Append(@, msg)]

\* Variant: the finally block is missing.
FinishNoFinally(a, r, out) ==
    LET q == a.req[r]
        shown == IF out.kind = "value" /\ out.val = ValImage
                 THEN AppendMsg(a, q.mode, ResultMsg(q.mode, q.text, q.finalPrompt))
                 ELSE AppendMsg(a, q.mode,
                                ErrorMsg(IF out.kind = "value" THEN ErrNoImage ELSE out.err))
    IN  [shown EXCEPT !.req[r] = Done]

\* Variant: the assistant message goes to the mode that is active now.
FinishInCurrentMode(a, r, out) ==
    LET q == a.req[r]
        shown == IF out.kind = "value" /\ out.val = ValImage
                 THEN AppendMsg(a, currentMode, ResultMsg(q.mode, q.text, q.finalPrompt))
                 ELSE AppendMsg(a, currentMode,
                                ErrorMsg(IF out.kind = "value" THEN ErrNoImage ELSE out.err))
    IN  [shown EXCEPT !.generatingMode = IF @ = q.mode THEN Null ELSE @,
                      !.req[r] = Done]

\* App.tsx 201-244: the generation call of request r settled with out.
Finish(a, r, out) ==
    LET q == a.req[r]
        shown == IF out.kind = "value" /\ out.val = ValImage
                 THEN AppendMsg(a, q.mode, ResultMsg(q.mode, q.text, q.finalPrompt))
                 ELSE AppendMsg(a, q.mode,
                                ErrorMsg(IF out.kind = "value" THEN ErrNoImage ELSE out.err))
    IN  [shown EXCEPT !.generatingMode = IF @ = q.mode THEN Null ELSE @,
                      !.req[r] = Done]

\* The generation call of App.tsx 195-199 for request q.
GenerationCall(q, w) ==
    IF q.hasImages THEN generateWithImages(w) ELSE generateImage(q.config.highQuality, w)

\* Variant: the prompt goes to generation as it is.
GenerateNoFallback(a, r, prompt, w) ==
    LET q == a.req[r]
        c == GenerationCall(q, w)
        b == [a EXCEPT !.req[r].finalPrompt = prompt, !.req[r].stage = "generate"]
    IN  IF c.t.status = "running" THEN b ELSE Finish(b, r, Outcome(c.t))

\* App.tsx 187-199: the prompt is settled and generation is called.
Generate(a, r, prompt, w) ==
    LET q == a.req[r]
        finalPrompt == IF prompt = <<>> THEN FallbackPrompt(q.mode) ELSE prompt
        c == GenerationCall(q, w)
        b == [a EXCEPT !.req[r].finalPrompt = finalPrompt, !.req[r].stage = "generate"]
    IN  IF c.t.status = "running" THEN b ELSE Finish(b, r, Outcome(c.t))

\* App.tsx 179-184: the refinement call of request r settled with out.
AfterRefine(a, r, out, w) ==
    Generate(a, r, IF out.kind = "value" THEN out.val.s ELSE a.req[r].text, w)

\* App.tsx 156-185: handleSendMessage up to its first await, as request r.
handleSendMessage(r, text, hasImages) ==
    LET activeMode == currentMode
        q == [stage |-> "refine", mode |-> activeMode, text |-> text,
              hasImages |-> hasImages, config |-> config, finalPrompt |-> text]
        a == [AppendMsg(AppState, activeMode, UserMsg(text, hasImages))
                 EXCEPT !.generatingMode = activeMode, !.req[r] = q]
    IN  IF Trim(text) # <<>> \/ ~hasImages
        THEN LET c == refinePrompt(text, activeMode, hasImages, World)
             IN  IF c.t.status = "running" THEN a
                 ELSE AfterRefine(a, r, Outcome(c.t), World)
        ELSE Generate(a, r, text, World)

Apply(a) ==
    /\ histories' = a.histories
    /\ generatingMode' = a.generatingMode
    /\ req' = a.req

Running(r) == task[r].status = "running"
Settled(r) == task[r].status \in {"returned", "thrown"}
Awaiting(r, ops) ==
    /\ Running(r)
    /\ Top(Ctx(task[r], hist[r])).kind = "op"
    /\ Top(Ctx(task[r], hist[r])).pc = "remote"
    /\ Top(Ctx(task[r], hist[r])).op \in ops
Sleeping(r) ==
    /\ Running(r)
    /\ Top(Ctx(task[r], hist[r])).pc = "sleep"

ImageOps == {"genPro", "genStd", "genImages"}

\* The task r goes on as c.
Advance(r, c) ==
    /\ task' = [task EXCEPT ![r] = c.t]
    /\ hist' = [hist EXCEPT ![r] = c.h]
    /\ UNCHANGED <<apiKey, blob, memo, sent, appVars>>

(***************************************************************************)
(* Steps of a task: the remote service answers, a sleep ends.              *)
(***************************************************************************)
RemoteFails(r, e) ==
    /\ Awaiting(r, ImageOps \cup {"refine", "opaque"})
    /\ Advance(r, OnRemote(Ctx(task[r], hist[r]), Thrown(e), World))

OperationFails(r) ==
    \* an operation may also fail with an error of no retryable class
    /\ Awaiting(r, {"opaque"})
    /\ Advance(r, OnRemote(Ctx(task[r], hist[r]), Thrown(ErrType), World))

OperationSucceeds(r) ==
    /\ Awaiting(r, {"opaque"})
    /\ Advance(r, OnRemote(Ctx(task[r], hist[r]), Returned(ValOk), World))

ImageWithPayload(r) ==
    /\ Awaiting(r, ImageOps)
    /\ Advance(r, OnRemote(Ctx(task[r], hist[r]), Returned(RespImage), World))

ImageWithoutPayload(r, resp) ==
    /\ Awaiting(r, ImageOps)
    /\ Advance(r, OnRemote(Ctx(task[r], hist[r]), Returned(resp), World))

ImageMalformed(r, resp) ==
    /\ Awaiting(r, ImageOps)
    /\ Advance(r, OnRemote(Ctx(task[r], hist[r]), Returned(resp), World))

TextReply(r, reply) ==
    /\ Awaiting(r, {"refine"})
    /\ Advance(r, OnRemote(Ctx(task[r], hist[r]), Returned(reply), World))

SleepEnds(r) ==
    /\ Sleeping(r)
    /\ Advance(r, Wake(Ctx(task[r], hist[r]), World))

(***************************************************************************)
(* The service alone: one call of one of its entry points, or of           *)
(* retryOperation(operation, n) around an operation that succeeds or fails *)
(* with any error, against a remote service that answers anything.         *)
(***************************************************************************)
\* App.tsx 15-23
AppInit ==
    /\ currentMode = "GENERAL"
    /\ histories = [m \in AppMode |-> <<>>]
    /\ generatingMode = Null
    /\ config = [aspectRatio |-> "1:1", highQuality |-> FALSE]
    /\ req = [r \in TaskIds |-> NoReq]

SvcInit ==
    /\ task = [r \in TaskIds |-> IdleTask]
    /\ hist = [r \in TaskIds |-> NoHist]
    /\ apiKey \in BOOLEAN
    /\ blob \in InitBlobs
    /\ memo = NoMemo
    /\ sent = NoSent
    /\ AppInit

CallRetry ==
    \E n \in 0..MaxRetries :
        /\ task[1].status = "idle"
        /\ Advance(1, retryOperation(NewTask("retryOperation", [NoArgs EXCEPT !.n = n]),
                                     "opaque", n, World))

CallRefine ==
    \E userInput \in UserInputs, mode \in {"GENERAL", "LOGO"}, hasImages \in BOOLEAN :
        /\ task[1].status = "idle"
        /\ Advance(1, refinePrompt(userInput, mode, hasImages, World))

CallGenerateImage ==
    \E highQuality \in BOOLEAN :
        /\ task[1].status = "idle"
        /\ Advance(1, generateImage(highQuality, World))

CallGenerateWithImages ==
    /\ task[1].status = "idle"
    /\ Advance(1, generateWithImages(World))

ServiceNext ==
    \/ CallRetry
    \/ CallRefine
    \/ CallGenerateImage
    \/ CallGenerateWithImages
    \/ \E e \in RemoteErrors : RemoteFails(1, e)
    \/ OperationFails(1)
    \/ OperationSucceeds(1)
    \/ ImageWithPayload(1)
    \/ \E resp \in NoImageResponses : ImageWithoutPayload(1, resp)
    \/ \E resp \in MalformedResponses : ImageMalformed(1, resp)
    \/ \E reply \in TextReplies : TextReply(1, reply)
    \/ SleepEnds(1)

ServiceSpec == SvcInit /\ [][ServiceNext]_vars

\* Every remote call and every backoff sleep of a call eventually completes
\* (a remote call that is not answered ends with a failure).
ServiceFairSpec ==
    /\ ServiceSpec
    /\ WF_vars(\E e \in RemoteErrors : RemoteFails(1, e))
    /\ WF_vars(SleepEnds(1))

\* Then every call settles, since a call makes boundedly many attempts.
ServiceTerminates == Running(1) ~> Settled(1)

\* The outcomes of a call are the outcomes its task settles with.
OutcomesAreSound ==
    (Settled(1) /\ apiKey)
    => CASE task[1].fn = "generateImage" ->
                Outcome(task[1]) \in (IF task[1].args.hq THEN OutcomesHigh
                                      ELSE OutcomesStandard)
         [] task[1].fn = "generateWithImages" -> Outcome(task[1]) \in OutcomesWithImages
         [] task[1].fn = "refinePrompt" ->
                Outcome(task[1]) \in RefinementOutcomes(task[1].args.input)
         [] OTHER -> TRUE

(***************************************************************************)
(* The session: the user sends (button or Enter key), switches modes,      *)
(* resets, changes the configuration, while the calls of the requests in   *)
(* flight settle.  Every send is a new request, so MaxTasks bounds the     *)
(* number of sends of a session.                                           *)
(***************************************************************************)
SessionModes == {"GENERAL", "THUMBNAIL"}
SessionRatios == {"16:9"}

HasFreeId == \E r \in TaskIds : req[r].stage = "none"
FreeId == CHOOSE r \in TaskIds : req[r].stage = "none" /\ \A q \in 1..(r - 1) : req[q].stage # "none"

isGenerating == generatingMode = currentMode

\* ChatInterface handleSend (36-44), reached from the send button, which
\* is disabled while isGenerating (289-292)
SendButton(text, hasImages) ==
    /\ ~isGenerating
    /\ ~(Trim(text) = <<>> /\ ~hasImages)
    /\ HasFreeId
    /\ Apply(handleSendMessage(FreeId, text, hasImages))
    /\ UNCHANGED <<svcVars, currentMode, config>>

\* ChatInterface handleKeyPress (46-51): Enter calls handleSend
SendEnter(text, hasImages) ==
    /\ ~(Trim(text) = <<>> /\ ~hasImages)
    /\ HasFreeId
    /\ Apply(handleSendMessage(FreeId, text, hasImages))
    /\ UNCHANGED <<svcVars, currentMode, config>>

\* The refinement call request r awaits settles (App.tsx 180).
RefinementSettles(r) ==
    /\ req[r].stage = "refine"
    /\ \E out \in RefinementOutcomes(req[r].text) :
           Apply(AfterRefine(AppState, r, out, World))
    /\ UNCHANGED <<svcVars, currentMode, config>>

\* The generation call request r awaits settles (App.tsx 196, 198).
GenerationSettles(r) ==
    /\ req[r].stage = "generate"
    /\ \E out \in (IF req[r].hasImages THEN OutcomesWithImages
                   ELSE IF req[r].config.highQuality THEN OutcomesHigh
                   ELSE OutcomesStandard) :
           Apply(Finish(AppState, r, out))
    /\ UNCHANGED <<svcVars, currentMode, config>>

\* The config once handleModeChange(mode) has run: the effect that sets the
\* defaults (App.tsx 74-110) depends on [currentMode] and runs only when
\* setCurrentMode(mode) has changed currentMode.
ConfigAfterModeChange(mode) ==
    IF mode # currentMode THEN DefaultConfig(mode) ELSE config

\* App.tsx 112-115, with the effect on currentMode (74-110), which runs
\* when currentMode has changed
handleModeChange(mode) ==
    /\ currentMode' = mode
    /\ config' = ConfigAfterModeChange(mode)
    /\ UNCHANGED <<svcVars, histories, generatingMode, req>>

\* Variant: the reset clears every conversation and always ends generating.
handleResetEverything ==
    /\ histories' = [m \in AppMode |-> <<>>]
    /\ generatingMode' = Null
    /\ UNCHANGED <<svcVars, currentMode, config, req>>

\* App.tsx 117-125
handleReset ==
    /\ histories' = [histories EXCEPT ![currentMode] = <<>>]
    /\ generatingMode' = IF generatingMode = currentMode THEN Null ELSE generatingMode
    /\ UNCHANGED <<svcVars, currentMode, config, req>>

\* ChatInterface 109
ToggleQuality ==
    /\ config' = [config EXCEPT !.highQuality = ~@]
    /\ UNCHANGED <<svcVars, currentMode, histories, generatingMode, req>>

\* ChatInterface 97-99
SelectRatio(ratio) ==
    /\ ratio # config.aspectRatio
    /\ config' = [config EXCEPT !.aspectRatio = ratio]
    /\ UNCHANGED <<svcVars, currentMode, histories, generatingMode, req>>

Init ==
    /\ task = [r \in TaskIds |-> IdleTask]
    /\ hist = [r \in TaskIds |-> NoHist]
    /\ apiKey \in BOOLEAN
    /\ blob = BlobAbsent
    /\ memo = NoMemo
    /\ sent = NoSent
    /\ AppInit

Next ==
    \/ \E text \in UserInputs, hasImages \in BOOLEAN : SendButton(text, hasImages)
    \/ \E text \in UserInputs, hasImages \in BOOLEAN : SendEnter(text, hasImages)
    \/ \E r \in TaskIds : RefinementSettles(r)
    \/ \E r \in TaskIds : GenerationSettles(r)
    \/ \E mode \in SessionModes : handleModeChange(mode)
    \/ handleReset
    \/ ToggleQuality
    \/ \E ratio \in SessionRatios : SelectRatio(ratio)

Spec == Init /\ [][Next]_vars

\* Every remote call and every backoff sleep eventually completes and a
\* call makes boundedly many of them (ServiceTerminates), so while calls
\* are pending one of them eventually settles.
Settles == \E r \in TaskIds : RefinementSettles(r) \/ GenerationSettles(r)

FairSpec == Spec /\ WF_vars(Settles)

(***************************************************************************)
(* The style memory alone: learn and recall called with any arguments, on  *)
(* a persisted value that is missing, damaged, or a store written by       *)
(* earlier learn calls (StoreOf(n) is the store after n learn calls with   *)
(* distinct inputs, alternating between two modes), with storage that may  *)
(* fail.                                                                   *)
(***************************************************************************)
MemoryModes == {"GENERAL", "LOGO"}
Times == 1..MaxTime

StoreOf(n) ==
    BlobOf([i \in 1..n |->
               Pattern(IF i % 2 = 1 THEN "LOGO" ELSE "GENERAL", <<ToString(i)>>, <<"r">>, 1)])

\* the store after one learn for LOGO and n - 1 learns for GENERAL
StoreLogoFirst(n) ==
    BlobOf([i \in 1..n |->
               Pattern(IF i = 1 THEN "LOGO" ELSE "GENERAL", <<ToString(i)>>, <<"r">>, 1)])

MemoryBlobs ==
    {BlobAbsent, BlobCorrupt, BlobNonSeq} \cup
    {StoreOf(n) : n \in {0, 2, 12, MemoryCap - 1, MemoryCap}} \cup
    {StoreLogoFirst(MemoryCap)}

\* (userInput, refinedPrompt) pairs learn is called with
LearnPairs == {<<<<"1">>, <<"r">>>>, <<<<"1">>, <<"s">>>>}

MemoryInit ==
    /\ task = [r \in TaskIds |-> IdleTask]
    /\ hist = [r \in TaskIds |-> NoHist]
    /\ apiKey = TRUE
    /\ blob \in MemoryBlobs
    /\ memo = NoMemo
    /\ sent = NoSent
    /\ AppInit

LearnCall(mode, userInput, refinedPrompt, now, fault) ==
    LET res == learn(blob, mode, userInput, refinedPrompt, now, fault) IN
    /\ blob' = res.store
    /\ memo' = [op |-> "learn", mode |-> mode, userInput |-> userInput,
                refinedPrompt |-> refinedPrompt, now |-> now, fault |-> fault,
                before |-> blob, threw |-> res.threw, text |-> <<>>]
    /\ UNCHANGED <<task, hist, apiKey, sent, appVars>>

\* recall's own catch (309-312) turns a failing getItem into ""
RecallCall(mode, fault) ==
    /\ memo' = [NoMemo EXCEPT !.op = "recall", !.mode = mode, !.fault = fault,
                              !.before = blob,
                              !.text = IF fault = "read" THEN <<>> ELSE Recall(blob, mode)]
    /\ UNCHANGED <<task, hist, apiKey, blob, sent, appVars>>

MemoryNext ==
    \/ \E mode \in MemoryModes, pair \in LearnPairs, now \in Times, fault \in Faults :
           LearnCall(mode, pair[1], pair[2], now, fault)
    \/ \E mode \in MemoryModes, fault \in {"none", "read"} : RecallCall(mode, fault)

MemorySpec == MemoryInit /\ [][MemoryNext]_vars

(***************************************************************************)
(* Likes.  handleLikeMessage(index) on the conversation of the active      *)
(* mode, in a session whose conversations are written by handleSendMessage *)
(* and handleReset.  index is the 0-based position the handler is called   *)
(* with; messages[index] is undefined outside the array.                   *)
(***************************************************************************)
\* Variant: a message is liked only when its pattern is learned.
LikeStrict(messages, index) ==
    LET message == messages[index + 1]
        userInput == IF index >= 1 /\ messages[index].role = "user"
                     THEN messages[index].content ELSE <<>>
    IN  [accepted |-> /\ message.role = "assistant"
                      /\ message.metadata.present
                      /\ message.metadata.finalPrompt # <<>>
                      /\ userInput # <<>>
                      /\ userInput = message.metadata.originalPrompt,
         userInput |-> userInput,
         finalPrompt |-> message.metadata.finalPrompt]

\* App.tsx 128-135 for an index inside the array: whether the handler goes
\* on (131), and the userInput (134) and finalPrompt it works with
Like(messages, index) ==
    LET message == messages[index + 1]
        userInput == IF index >= 1 /\ messages[index].role = "user"
                     THEN messages[index].content ELSE <<>>
    IN  [accepted |-> /\ message.role = "assistant"
                      /\ message.metadata.present
                      /\ message.metadata.finalPrompt # <<>>,
         userInput |-> userInput,
         finalPrompt |-> message.metadata.finalPrompt]

\* App.tsx 127-154
handleLikeMessage(index, now, fault) ==
    LET activeMode == currentMode
        messages == histories[activeMode]
    IN  IF index < 0 \/ index >= Len(messages) THEN UNCHANGED vars
        ELSE LET like == Like(messages, index) IN
             IF ~like.accepted THEN UNCHANGED vars
             ELSE /\ IF like.userInput # <<>>
                     THEN LET res == learn(blob, activeMode, like.userInput,
                                           like.finalPrompt, now, fault)
                          IN  /\ blob' = res.store
                              /\ memo' = [op |-> "learn", mode |-> activeMode,
                                          userInput |-> like.userInput,
                                          refinedPrompt |-> like.finalPrompt,
                                          now |-> now, fault |-> fault, before |-> blob,
                                          threw |-> res.threw, text |-> <<>>]
                     ELSE UNCHANGED <<blob, memo>>
                  /\ histories' = [histories EXCEPT
                                      ![activeMode][index + 1].metadata.liked = TRUE]
                  /\ UNCHANGED <<task, hist, apiKey, sent, currentMode, generatingMode,
                                 config, req>>

\* what is sent: a text, or images without text
LikeSends == {<<<<"a">>, FALSE>>, <<<<>>, TRUE>>}

LikeInit ==
    /\ task = [r \in TaskIds |-> IdleTask]
    /\ hist = [r \in TaskIds |-> NoHist]
    /\ apiKey = TRUE
    /\ blob = BlobAbsent
    /\ memo = NoMemo
    /\ sent = NoSent
    /\ AppInit

LikeNext ==
    \/ \E send \in LikeSends : SendButton(send[1], send[2])
    \/ \E send \in LikeSends : SendEnter(send[1], send[2])
    \/ \E r \in TaskIds : RefinementSettles(r)
    \/ \E r \in TaskIds : GenerationSettles(r)
    \/ \E mode \in SessionModes : handleModeChange(mode)
    \/ handleReset
    \/ \E index \in -1..Len(histories[currentMode]), now \in Times,
          fault \in {"none", "write"} : handleLikeMessage(index, now, fault)

LikeSpec == LikeInit /\ [][LikeNext]_vars

LikeFairSpec == LikeSpec /\ WF_vars(Settles)

(***************************************************************************)
(* The request of generateWithImages alone: called with one to MaxImages   *)
(* reference images, each a data URL of some image type as the file reader *)
(* of the input box produces them, or a string that is no data URL, and a  *)
(* prompt.                                                                 *)
(***************************************************************************)
DataUrl(subtype, payload) == <<"data:", "image/">> \o subtype \o <<";base64,">> \o payload

ReferenceImages ==
    {DataUrl(t, <<"A">>) : t \in StrippedSubtypes}
    \cup {DataUrl(<<"g", "i", "f">>, <<"A">>),
          DataUrl(<<"s", "v", "g", "+", "x", "m", "l">>, <<"A">>),
          <<"A">>}

PartPrompts == {<<"a">>, <<"High quality image.">>}

PartsInit ==
    /\ task = [r \in TaskIds |-> IdleTask]
    /\ hist = [r \in TaskIds |-> NoHist]
    /\ apiKey = TRUE
    /\ blob = BlobAbsent
    /\ memo = NoMemo
    /\ sent = NoSent
    /\ AppInit

\* generateWithImages up to its remote call (183-202)
BuildRequest(base64Images, prompt) ==
    /\ sent' = [op |-> "generateWithImages", images |-> base64Images, prompt |-> prompt,
                request |-> ImageRequest(base64Images, prompt)]
    /\ UNCHANGED <<task, hist, apiKey, blob, memo, appVars>>

PartsNext ==
    \E n \in 1..MaxImages : \E base64Images \in [1..n -> ReferenceImages] :
        \E prompt \in PartPrompts : BuildRequest(base64Images, prompt)

PartsSpec == PartsInit /\ [][PartsNext]_vars

(***************************************************************************)
(* handleSendMessage as an operation: called with any text, with or        *)
(* without reference images, in any of three modes, without the test of    *)
(* the input box (ChatInterface handleSend) in front of it.                *)
(***************************************************************************)
SendModes == {"GENERAL", "THUMBNAIL", "BG_REMOVER"}

sendMessage(text, hasImages) ==
    /\ HasFreeId
    /\ Apply(handleSendMessage(FreeId, text, hasImages))
    /\ UNCHANGED <<svcVars, currentMode, config>>

SendInit ==
    /\ task = [r \in TaskIds |-> IdleTask]
    /\ hist = [r \in TaskIds |-> NoHist]
    /\ apiKey \in BOOLEAN
    /\ blob = BlobAbsent
    /\ memo = NoMemo
    /\ sent = NoSent
    /\ AppInit

SendNext ==
    \/ \E text \in UserInputs, hasImages \in BOOLEAN : sendMessage(text, hasImages)
    \/ \E r \in TaskIds : RefinementSettles(r)
    \/ \E r \in TaskIds : GenerationSettles(r)
    \/ \E mode \in SendModes : handleModeChange(mode)

SendSpec == SendInit /\ [][SendNext]_vars

(***************************************************************************)
(* Properties of the service.                                              *)
(***************************************************************************)
IsCall(r, fn) == task[r].fn = fn

\* C1: within one generateImage call the service switches from the high
\* tier to the standard tier at most once, the high tier is never invoked
\* once the standard tier has been, and with highQuality = false the high
\* tier is never invoked.
C1_FallbackOnce ==
    \A r \in TaskIds : IsCall(r, "generateImage") =>
        /\ hist[r].fallbacks <= 1
        /\ ~hist[r].hiAfterStd
        /\ (~task[r].args.hq => hist[r].hi = 0)

\* C2: within one generateImage call the high tier is invoked at most
\* ImageRetries + 1 = 3 times and the standard tier at most 3 times.
C2_TierBudget ==
    \A r \in TaskIds : IsCall(r, "generateImage") =>
        /\ hist[r].hi <= ImageRetries + 1
        /\ hist[r].std <= ImageRetries + 1

\* C3: the service falls back to the standard tier only after the high
\* tier has been retried as far as its budget and the failure class allow
\* (no fallback is taken while the failed high-tier attempt could still be
\* retried).
C3_RetryBeforeFallback ==
    \A r \in TaskIds : IsCall(r, "generateImage") => ~hist[r].early

\* C4: retryOperation(op, n) invokes op at most n + 1 times, and a
\* retryable failure (quota or 503) met with the budget exhausted is
\* propagated as it is: the call ends thrown with the error of the last
\* attempt.
C4_RetryBudget ==
    \A r \in TaskIds : IsCall(r, "retryOperation") =>
        /\ hist[r].opq <= task[r].args.n + 1
        /\ (Retryable(hist[r].lastErr) /\ hist[r].inflight = 0
              /\ hist[r].opq = task[r].args.n + 1)
           => (task[r].status = "thrown" /\ task[r].err = hist[r].lastErr)
        /\ (task[r].status = "thrown" /\ Retryable(task[r].err))
           => hist[r].opq = task[r].args.n + 1

C4_Witness ==
    \E r \in TaskIds :
        /\ IsCall(r, "retryOperation")
        /\ task[r].args.n = 2
        /\ hist[r].opq = 3
        /\ task[r].status = "thrown"
        /\ task[r].err = ErrUnavailable

\* C5: a failure that is neither quota nor 503 is propagated at once: the
\* call ends thrown with that error, the operation is not invoked again and
\* no sleep follows (every sleep belongs to an earlier attempt).
C5_OtherFailsFast ==
    \A r \in TaskIds :
        (IsCall(r, "retryOperation") /\ hist[r].lastErr # NoErr
           /\ ~Retryable(hist[r].lastErr) /\ hist[r].inflight = 0)
        => /\ task[r].status = "thrown"
           /\ task[r].err = hist[r].lastErr
           /\ task[r].stack = <<>>
           /\ hist[r].waits = hist[r].opq - 1

C5_Witness ==
    \E r \in TaskIds :
        /\ IsCall(r, "retryOperation")
        /\ task[r].args.n = 3
        /\ hist[r].opq = 2
        /\ task[r].status = "thrown"
        /\ task[r].err = ErrDenied

\* C6: retries are sequential: at most one invocation of the operation is
\* in flight, none while the call sleeps, every invocation after the first
\* follows a completed sleep, and that sleep is the one of the failure
\* class of the previous attempt.
C6_Sequential ==
    \A r \in TaskIds : IsCall(r, "retryOperation") =>
        /\ hist[r].inflight <= 1
        /\ (Sleeping(r) => hist[r].inflight = 0)
        /\ hist[r].opq = hist[r].waits + 1
        /\ (hist[r].opq > 1 /\ hist[r].inflight = 1) =>
              /\ Retryable(hist[r].lastErr)
              /\ hist[r].lastWait =
                    IF IsQuotaError(hist[r].lastErr) THEN QuotaCooldownMs
                    ELSE UnavailableDelayMs

C6_Witness ==
    \E r \in TaskIds :
        /\ IsCall(r, "retryOperation")
        /\ hist[r].opq = 3
        /\ hist[r].inflight = 1
        /\ hist[r].lastWait = UnavailableDelayMs

\* C7: refinePrompt never fails: it never ends thrown, and whenever the
\* text model fails, the client cannot be created, or the reply is empty,
\* it returns userInput unchanged.
C7_RefineNeverFails ==
    \A r \in TaskIds : IsCall(r, "refinePrompt") =>
        /\ task[r].status # "thrown"
        /\ (hist[r].absorbed \/ hist[r].lastErr # NoErr)
           => (task[r].status = "returned" /\ task[r].val = ValText(task[r].args.input))
        /\ (task[r].status = "returned") => task[r].val.t = "text"

C7_Witness ==
    \E r \in TaskIds :
        /\ IsCall(r, "refinePrompt")
        /\ blob.kind = "corrupt"
        /\ hist[r].lastErr = ErrDenied
        /\ task[r].status = "returned"
        /\ task[r].args.input = <<"a">>

\* C8: when the text model fails with a quota or 503 error, refinePrompt
\* invokes the text model a second time before it falls back to userInput.
C8_RefineRetriesOnce ==
    \A r \in TaskIds :
        (IsCall(r, "refinePrompt") /\ Settled(r) /\ Retryable(hist[r].lastErr))
        => hist[r].txt = RefineRetries + 1

InFlight(r) == req[r].stage \in {"refine", "generate"}
Completed(r) == req[r].stage = "done"

\* C10: every send into a mode M eventually returns M to idle, whether the
\* generation succeeds, returns no image or fails, provided every call
\* eventually settles: while requests are in flight, a state is eventually
\* reached where all of them have completed and no mode is generating; the
\* step that completes a request sent into M leaves M not generating; and
\* M is generating only while a request sent into M is still in flight.
C10_ReturnsToIdle ==
    /\ (\E r \in TaskIds : InFlight(r))
           ~> (generatingMode = Null /\ \A r \in TaskIds : ~InFlight(r))
    /\ [][\A r \in TaskIds :
              (InFlight(r) /\ Completed(r)') => generatingMode' # req[r].mode]_vars
    /\ [](\A m \in AppMode :
              generatingMode = m => \E r \in TaskIds : InFlight(r) /\ req[r].mode = m)

C10_Witness ==
    /\ \A r \in TaskIds : Completed(r)
    /\ generatingMode = Null
    /\ \E i \in DOMAIN histories["GENERAL"] : histories["GENERAL"][i].metadata.present
    /\ \E i \in DOMAIN histories["THUMBNAIL"] :
           histories["THUMBNAIL"][i].errMessage # NoNote

\* The outcomes the generation call of request q can settle with.
GenerationOutcomes(q) ==
    IF q.hasImages THEN OutcomesWithImages
    ELSE IF q.config.highQuality THEN OutcomesHigh
    ELSE OutcomesStandard

Last(h) == h[Len(h)]

IsResultMsg(msg, text, finalPrompt) ==
    /\ msg.role = "assistant"
    /\ msg.images
    /\ msg.errMessage = NoNote
    /\ msg.metadata = [present |-> TRUE, originalPrompt |-> text,
                       finalPrompt |-> finalPrompt, liked |-> FALSE]

IsErrorMsg(msg) ==
    /\ msg.role = "assistant"
    /\ ~msg.images
    /\ msg.errMessage.text # ""
    /\ ~msg.metadata.present

\* C11: the step that completes a request sent into mode M appends exactly
\* one assistant message to the history of M, whatever the active mode is
\* by then, and changes no other history: a message with the image and the
\* metadata {originalPrompt: text, finalPrompt, liked: false} when the
\* generation returned an image, and an error message with neither image
\* nor metadata when it returned none or threw.  A request that fails before
\* its first await completes in the step of the send, which appends the
\* user message and the error message.
C11_OneAssistantMessage ==
    /\ [][\A r \in TaskIds :
              /\ (InFlight(r) /\ Completed(r)') =>
                     LET m == req[r].mode IN
                     /\ Len(histories'[m]) = Len(histories[m]) + 1
                     /\ SubSeq(histories'[m], 1, Len(histories[m])) = histories[m]
                     /\ \A o \in AppMode \ {m} : histories'[o] = histories[o]
                     /\ \/ IsResultMsg(Last(histories'[m]), req[r].text, req[r].finalPrompt)
                        \/ IsErrorMsg(Last(histories'[m]))
              /\ (req[r].stage = "none" /\ Completed(r)') =>
                     LET m == currentMode IN
                     /\ Len(histories'[m]) = Len(histories[m]) + 2
                     /\ SubSeq(histories'[m], 1, Len(histories[m])) = histories[m]
                     /\ \A o \in AppMode \ {m} : histories'[o] = histories[o]
                     /\ histories'[m][Len(histories[m]) + 1].role = "user"
                     /\ IsErrorMsg(Last(histories'[m]))]_vars
    /\ [](\A r \in TaskIds :
              req[r].stage = "generate" =>
                  \A out \in GenerationOutcomes(req[r]) :
                      LET msg == Last(Finish(AppState, r, out).histories[req[r].mode])
                      IN  IF out.kind = "value" /\ out.val = ValImage
                          THEN IsResultMsg(msg, req[r].text, req[r].finalPrompt)
                          ELSE IsErrorMsg(msg))

C11_Witness ==
    /\ currentMode = "THUMBNAIL"
    /\ \A r \in TaskIds : Completed(r)
    /\ histories["GENERAL"] =
           <<UserMsg(<<"a">>, FALSE), ResultMsg("GENERAL", <<"a">>, <<"r">>)>>
    /\ Len(histories["THUMBNAIL"]) = 2
    /\ IsErrorMsg(Last(histories["THUMBNAIL"]))

\* C12: each mode is reported generating from its own send until its own
\* request completes, independently of the other modes: a step that is not
\* a reset and completes no request of mode M leaves M reported generating
\* while a request sent into M stays in flight.
C12_IndependentModes ==
    [][\A r \in TaskIds :
           (/\ InFlight(r) /\ InFlight(r)'
            /\ generatingMode = req[r].mode
            /\ ~handleReset
            /\ \A q \in TaskIds :
                   ~(InFlight(q) /\ Completed(q)' /\ req[q].mode = req[r].mode))
           => generatingMode' = req[r].mode]_vars

\* C13: at most one request is in flight per mode, whatever the order of
\* sends (button or Enter key), mode changes, resets and completions.
C13_OneInFlightPerMode ==
    \A r, q \in TaskIds :
        (r # q /\ InFlight(r) /\ InFlight(q)) => req[r].mode # req[q].mode

(***************************************************************************)
(* Properties of likes and of the style memory.                            *)
(***************************************************************************)
\* The message at position i of mode m gets liked in this step.
GetsLiked(m, i) ==
    /\ i \in DOMAIN histories[m]
    /\ Len(histories'[m]) = Len(histories[m])
    /\ ~histories[m][i].metadata.liked
    /\ histories'[m][i].metadata.liked

\* The message at position i of mode m is an assistant message carrying
\* finalPrompt whose preceding message is the user message that triggered it.
Qualified(m, i) ==
    /\ i \in DOMAIN histories[m]
    /\ histories[m][i].role = "assistant"
    /\ histories[m][i].metadata.present
    /\ histories[m][i].metadata.finalPrompt # <<>>
    /\ i >= 2
    /\ histories[m][i - 1].role = "user"
    /\ histories[m][i - 1].content # <<>>
    /\ histories[m][i - 1].content = histories[m][i].metadata.originalPrompt

\* C14: a step sets liked to true, or writes to the style memory, only for
\* an assistant message of the active mode that carries finalPrompt and
\* whose preceding message is the triggering user message with a non-empty
\* text; in every other case nothing is stored and no metadata changes.
C14_LikeOnlyWhenQualified ==
    [][/\ \A m \in AppMode : \A i \in DOMAIN histories[m] :
              GetsLiked(m, i) => (m = currentMode /\ Qualified(m, i))
       /\ blob' # blob =>
              \E i \in DOMAIN histories[currentMode] :
                  Qualified(currentMode, i) /\ GetsLiked(currentMode, i)]_vars

\* The records of the store (none when the value is missing or damaged).
Records(store) == IF store.kind = "seq" THEN store.items ELSE <<>>

SamePair(p, q) == p.userInput = q.userInput /\ p.refinedPrompt = q.refinedPrompt

NoDuplicatePairs(store) ==
    \A i, j \in DOMAIN Records(store) :
        i # j => ~SamePair(Records(store)[i], Records(store)[j])

\* The last memory call was a learn of a pair the store already held.
DuplicateLearn ==
    /\ memo.op = "learn"
    /\ memo.fault = "none"
    /\ IsDuplicate(Records(memo.before), memo.userInput, memo.refinedPrompt)

\* C15: the store never holds two records with the same (userInput,
\* refinedPrompt) pair, whatever their modes; a learn of a pair the store
\* already holds leaves the store as it was, order and timestamps included;
\* and however often messages are liked, the store holds at most one record
\* for the pair of a liked message.
C15_LearnIdempotent ==
    /\ NoDuplicatePairs(blob)
    /\ DuplicateLearn => blob = memo.before
    /\ \A m \in AppMode : \A i \in DOMAIN histories[m] :
           (i >= 2 /\ histories[m][i].metadata.liked) =>
               Cardinality({k \in DOMAIN Records(blob) :
                               /\ Records(blob)[k].userInput = histories[m][i - 1].content
                               /\ Records(blob)[k].refinedPrompt =
                                      histories[m][i].metadata.finalPrompt}) <= 1

\* a message is liked again in another mode, at another time, with the pair
\* of a record the store holds
C15_Witness ==
    /\ DuplicateLearn
    /\ Len(Records(blob)) = 1
    /\ Records(blob)[1].mode # memo.mode
    /\ Records(blob)[1].timestamp # memo.now
    /\ \E i \in DOMAIN histories[memo.mode] : histories[memo.mode][i].metadata.liked

\* The last memory call was a learn of a new pair with working storage.
NewLearn ==
    /\ memo.op = "learn"
    /\ memo.fault = "none"
    /\ memo.before.kind \in {"seq", "absent"}
    /\ ~IsDuplicate(Records(memo.before), memo.userInput, memo.refinedPrompt)

Learned == Pattern(memo.mode, memo.userInput, memo.refinedPrompt, memo.now)

\* C16: the store never holds more than 100 records; a learn of a new pair
\* on a store of 100 records removes the oldest record (the first) and
\* appends the new record last, and on a smaller store it only appends.
C16_Capped ==
    /\ Len(Records(blob)) <= MemoryCap
    /\ NewLearn =>
           blob = BlobOf(IF Len(Records(memo.before)) = MemoryCap
                         THEN Append(Tail(Records(memo.before)), Learned)
                         ELSE Append(Records(memo.before), Learned))

C16_Witness ==
    /\ NewLearn
    /\ Len(Records(memo.before)) = MemoryCap
    /\ Len(Records(blob)) = MemoryCap
    /\ Records(blob)[1] = Records(memo.before)[2]
    /\ Records(blob)[MemoryCap] = Learned

\* The positions of the records of a mode, and the position of its i-th
\* most recently added record.
Positions(store, mode) == {k \in DOMAIN Records(store) : Records(store)[k].mode = mode}

NthRecent(store, mode, i) ==
    CHOOSE k \in Positions(store, mode) :
        Cardinality({j \in Positions(store, mode) : j > k}) = i - 1

\* C17: recall(mode) renders only records of that mode, at most 5 of them,
\* the most recently added ones, most recent first; it returns the empty
\* string when the store holds no record of that mode.
C17_RecallRecent ==
    (memo.op = "recall" /\ memo.fault = "none" /\ memo.before.kind = "seq") =>
        LET n == Cardinality(Positions(memo.before, memo.mode)) IN
        /\ Len(memo.text) = IF n < RecallLimit THEN n ELSE RecallLimit
        /\ \A i \in 1..Len(memo.text) :
               LET p == Records(memo.before)[NthRecent(memo.before, memo.mode, i)]
               IN  /\ p.mode = memo.mode
                   /\ memo.text[i] = [userInput |-> p.userInput,
                                      refinedPrompt |-> p.refinedPrompt]
        /\ n = 0 => memo.text = <<>>

C17_Witness ==
    /\ memo.op = "recall"
    /\ memo.fault = "none"
    /\ Cardinality(Positions(memo.before, memo.mode)) > RecallLimit
    /\ Positions(memo.before, memo.mode) # DOMAIN Records(memo.before)
    /\ Len(memo.text) = RecallLimit
    /\ memo.text[1].userInput = <<"1">>
    /\ memo.text[1].refinedPrompt = <<"s">>

\* C18: learn never raises to its caller, and when reading the persisted
\* value fails (getItem raises, or the value cannot be parsed as an array)
\* or writing it fails (setItem raises), the persisted value is left as it
\* was before the call.
C18_LearnNeverRaises ==
    memo.op = "learn" =>
        /\ ~memo.threw
        /\ (memo.fault # "none" \/ memo.before.kind \in {"corrupt", "nonseq"})
               => blob = memo.before

\* the write of a new record on a store that holds records fails
C18_Witness ==
    /\ memo.op = "learn"
    /\ memo.fault = "write"
    /\ Len(Records(memo.before)) > 0
    /\ ~IsDuplicate(Records(memo.before), memo.userInput, memo.refinedPrompt)
    /\ ~memo.threw
    /\ blob = memo.before

\* C19: a missing or damaged persisted value (unparseable, or no array) is
\* treated as an empty store: recall returns the empty string for every
\* mode, and learn stores its record, so that afterwards the store holds
\* exactly that record.
C19_DamagedIsEmpty ==
    /\ (memo.op = "recall" /\ memo.before.kind # "seq") => memo.text = <<>>
    /\ (memo.op = "learn" /\ memo.fault = "none" /\ memo.before.kind # "seq")
           => blob = BlobOf(<<Learned>>)

(***************************************************************************)
(* Properties of the configuration.                                        *)
(***************************************************************************)
\* C20: in every state, for every mode m, the active mode included,
\* handleModeChange(m) leaves the configuration at the defaults of m:
\* Thumbnail and Banner 16:9 high quality, Poster 3:4 high quality, Logo
\* and Avatar 1:1 high quality, Background Remover and General 1:1
\* standard quality.
C20_ModeChangeYieldsDefaults ==
    \A m \in AppMode :
        ConfigAfterModeChange(m) =
            [aspectRatio |-> CASE m \in {"THUMBNAIL", "BANNER"} -> "16:9"
                               [] m = "POSTER" -> "3:4"
                               [] OTHER -> "1:1",
             highQuality |-> m \in {"THUMBNAIL", "BANNER", "POSTER", "LOGO", "AVATAR"}]

(***************************************************************************)
(* Properties of reset and of the conversations.                           *)
(***************************************************************************)
\* C21: a reset on the active mode leaves the history of that mode empty
\* and the mode not generating; the histories of all other modes, whether
\* another mode is generating, the configuration and the style memory are
\* as they were.
C21_ResetFrame ==
    [][handleReset =>
           /\ histories'[currentMode] = <<>>
           /\ generatingMode' # currentMode
           /\ currentMode' = currentMode
           /\ \A m \in AppMode \ {currentMode} :
                  /\ histories'[m] = histories[m]
                  /\ (generatingMode' = m) = (generatingMode = m)
           /\ config' = config
           /\ blob' = blob]_vars

\* a reset has cleared the active mode while its request is in flight, the
\* other mode keeps its messages and the overridden configuration stays
C21_Witness ==
    /\ currentMode = "THUMBNAIL"
    /\ histories["THUMBNAIL"] = <<>>
    /\ generatingMode = Null
    /\ \E r \in TaskIds : InFlight(r) /\ req[r].mode = "THUMBNAIL"
    /\ Len(histories["GENERAL"]) = 2
    /\ config # DefaultConfig("THUMBNAIL")

\* C22: without reset, every step of sends, completions, likes and mode
\* changes keeps each history append-only: no history gets shorter, each
\* message stays at its position with its content, except that liked may go
\* from false to true and never back; a step changes the history of at most
\* one mode, which is the active mode for a send or a like and the mode of
\* the send for a completion; a mode change changes no history.
C22_AppendOnly ==
    [][~handleReset =>
           /\ \A m \in AppMode :
                  /\ Len(histories'[m]) >= Len(histories[m])
                  /\ \A i \in DOMAIN histories[m] :
                         \/ histories'[m][i] = histories[m][i]
                         \/ /\ ~histories[m][i].metadata.liked
                            /\ histories'[m][i] =
                                   [histories[m][i] EXCEPT !.metadata.liked = TRUE]
                  /\ histories'[m] # histories[m] =>
                         \/ /\ m = currentMode
                            /\ \/ \E r \in TaskIds : req[r].stage = "none" /\ req'[r].stage # "none"
                               \/ req' = req /\ Len(histories'[m]) = Len(histories[m])
                         \/ \E r \in TaskIds :
                                InFlight(r) /\ req'[r] # req[r] /\ req[r].mode = m
           /\ \A m, o \in AppMode :
                  (histories'[m] # histories[m] /\ histories'[o] # histories[o]) => m = o
           /\ (\E mode \in AppMode : handleModeChange(mode)) => histories' = histories]_vars

\* a liked result keeps its place and its mark while the next exchange is
\* appended behind it and the active mode changes
C22_Witness ==
    /\ currentMode = "THUMBNAIL"
    /\ Len(histories["GENERAL"]) = 4
    /\ histories["GENERAL"][2].metadata.liked
    /\ histories["GENERAL"][3].role = "user"
    /\ histories["GENERAL"][4].role = "assistant"

(***************************************************************************)
(* Properties of the prompt given to generation.                           *)
(***************************************************************************)
\* The prompts handleSendMessage can hold once the refinement step is over.
RefinedPrompts(text, hasImages) ==
    IF Trim(text) # <<>> \/ ~hasImages
    THEN {IF out.kind = "value" THEN out.val.s ELSE text : out \in RefinementOutcomes(text)}
    ELSE {text}

\* C23: generation is never called with an empty prompt.  The step that
\* brings a request to its generation call gives it, for the prompt p left
\* by the refinement step, p itself when p is not empty and otherwise the
\* literal of the mode ("Isolate the subject on white background." for the
\* background remover, "YouTube thumbnail." for thumbnails, "High quality
\* image." for every other mode); and the finalPrompt of the result message
\* is the prompt generation was called with.
C23_NeverEmptyPrompt ==
    /\ [](\A r \in TaskIds : req[r].stage = "generate" => req[r].finalPrompt # <<>>)
    /\ [][\A r \in TaskIds :
              /\ (req[r].stage \in {"none", "refine"} /\ req'[r].stage = "generate") =>
                     \E p \in RefinedPrompts(req'[r].text, req'[r].hasImages) :
                         req'[r].finalPrompt =
                             IF p # <<>> THEN p
                             ELSE CASE req'[r].mode = "BG_REMOVER" ->
                                           <<"Isolate the subject on white background.">>
                                    [] req'[r].mode = "THUMBNAIL" -> <<"YouTube thumbnail.">>
                                    [] OTHER -> <<"High quality image.">>
              /\ (req[r].stage = "generate" /\ Completed(r)'
                  /\ Last(histories'[req[r].mode]).metadata.present) =>
                     Last(histories'[req[r].mode]).metadata.finalPrompt = req[r].finalPrompt]_vars

\* images sent without text: the background remover is about to generate
\* with its literal, and a thumbnail made from its literal is shown
C23_Witness ==
    /\ \E r \in TaskIds :
           /\ req[r].stage = "generate"
           /\ req[r].mode = "BG_REMOVER"
           /\ req[r].text = <<>>
           /\ req[r].hasImages
           /\ req[r].finalPrompt = <<"Isolate the subject on white background.">>
    /\ Len(histories["THUMBNAIL"]) = 2
    /\ histories["THUMBNAIL"][2].metadata =
           [present |-> TRUE, originalPrompt |-> <<>>,
            finalPrompt |-> <<"YouTube thumbnail.">>, liked |-> FALSE]

\* C24: a send with empty text and no reference images in the background
\* remover calls generation with exactly "Isolate the subject on white
\* background.", whatever the refinement call returns.
C24_LiteralForEmptySend ==
    \A r \in TaskIds :
        (/\ req[r].stage = "generate"
         /\ req[r].mode = "BG_REMOVER"
         /\ req[r].text = <<>>
         /\ ~req[r].hasImages)
        => req[r].finalPrompt = <<"Isolate the subject on white background.">>

\* C25: when the generation call of a request finally fails with an error
\* the retry policy counts as quota or rate limit (status 429, code 429, or
\* a message containing "429" or "quota"), the assistant message that
\* completes the request is the quota message asking to wait and try again.
C25_QuotaMessage ==
    \A r \in TaskIds :
        req[r].stage = "generate" =>
            \A out \in GenerationOutcomes(req[r]) :
                (out.kind = "error" /\ IsQuotaError(out.err)) =>
                    Last(Finish(AppState, r, out).histories[req[r].mode]).errMessage.text =
                        "Server traffic is high (Quota Limit). Please wait a moment and try again."

(***************************************************************************)
(* Properties of the request with reference images.                        *)
(***************************************************************************)
\* img is a data URL of an image type: "data:image/", a subtype, ";base64,"
IsImageDataUrl(img) ==
    /\ Len(img) >= 4
    /\ img[1] = "data:"
    /\ img[2] = "image/"
    /\ \E k \in 4..Len(img) : img[k] = ";base64,"

\* where the encoding prefix of a data URL ends
PrefixEnd(img) == CHOOSE k \in 4..Len(img) : img[k] = ";base64,"

\* C26: the request generateWithImages sends goes to the standard image
\* model and has one part per reference image, in input order, then the
\* text prompt as its last part; for a reference image that is a data URL
\* of any image type the part carries the data without the encoding prefix
\* and the declared mime type.
C26_PartsFromImages ==
    sent.op = "generateWithImages" =>
        LET parts == sent.request.parts
            n == Len(sent.images)
        IN  /\ sent.request.model = "gemini-2.5-flash-image"
            /\ Len(parts) = n + 1
            /\ ~parts[n + 1].inlineData
            /\ parts[n + 1].text = sent.prompt
            /\ \A i \in 1..n :
                   /\ parts[i].inlineData
                   /\ IsImageDataUrl(sent.images[i]) =>
                          LET img == sent.images[i]
                              k == PrefixEnd(img)
                          IN  /\ parts[i].data = SubSeq(img, k + 1, Len(img))
                              /\ parts[i].mimeType = SubSeq(img, 2, k - 1)

(***************************************************************************)
(* Properties of likes in conversations with overlapping requests.         *)
(***************************************************************************)
\* C27: every record a like writes to the style memory pairs the refined
\* prompt of the liked message with the user input it was produced from:
\* the userInput given to learn is the originalPrompt of the liked message.
C27_LearnsOwnInput ==
    [][\A i \in DOMAIN histories[currentMode] :
           (GetsLiked(currentMode, i) /\ blob' # blob) =>
               /\ memo'.refinedPrompt = histories[currentMode][i].metadata.finalPrompt
               /\ memo'.userInput = histories[currentMode][i].metadata.originalPrompt]_vars

\* C28: after a reset of a mode with a request in flight, the completion of
\* that request appends nothing to the cleared history: while a request of
\* a mode is in flight and the history of the mode is empty (a send leaves
\* its user message there, so it has been reset), every step that is not a
\* send leaves that history empty.
C28_ClearedStaysEmpty ==
    [][\A r \in TaskIds :
           (/\ InFlight(r)
            /\ histories[req[r].mode] = <<>>
            /\ \A q \in TaskIds : req[q].stage = "none" => req'[q].stage = "none")
           => histories'[req[r].mode] = <<>>]_vars

(***************************************************************************)
(* Properties of learn followed by recall.                                 *)
(***************************************************************************)
\* C29: a learn for one mode leaves what recall returns for every other
\* mode as it was, also when the store is at its cap of 100 records.
C29_LearnKeepsOtherModes ==
    memo.op = "learn" =>
        \A mode \in MemoryModes \ {memo.mode} :
            Recall(blob, mode) = Recall(memo.before, mode)

\* C30: after learn(m, u, r) has returned, with storage that can be read
\* and written and a stored value that is missing or an array, recall(m)
\* lists the pair (u, r) as its first style reference, whatever the store
\* held before.
C30_LearnedIsRecalledFirst ==
    (memo.op = "learn" /\ memo.fault = "none" /\ memo.before.kind \in {"seq", "absent"}) =>
        /\ Recall(blob, memo.mode) # <<>>
        /\ Recall(blob, memo.mode)[1] =
               [userInput |-> memo.userInput, refinedPrompt |-> memo.refinedPrompt]

====
